---- MODULE Spec2Model ----
(***************************************************************************)
(* The notebooks of the repository as state machines: one action per code  *)
(* cell, the state being the kernel's namespace and what the cells have    *)
(* produced so far.  Each notebook runs in a kernel of its own, so each has *)
(* its own variables and its own specification:                            *)
(*                                                                         *)
(*   Spec     the river-plot notebook                                      *)
(*            (kepler_visualizing_periodic_signals_using_a_river_plot)     *)
(*   SpecDvt  the data-validation notebook (Kepler_DVT)                    *)
(*   SpecFfi  the full-frame-image notebook (beginner_how_to_use_ffi)      *)
(*   SpecGi   the guest-investigator download notebook (unnamed/part_001)  *)
(*                                                                         *)
(* The river-plot notebook implements no folding or binning itself.  It    *)
(* calls the Lightkurve library (search_lightcurve, flatten, fold,         *)
(* plot_river), whose code is not part of this repository.  Such a call is *)
(* recorded as the call that was made (receiver and arguments), never as a *)
(* computed result: the model says which calls the notebook makes, with    *)
(* which arguments and in which namespace, and nothing about what the      *)
(* library does inside them.                                               *)
(***************************************************************************)
EXTENDS Integers, Sequences, FiniteSets

\* ---------------------------------------------------------------- bounds
\* Longest light curve the archive hands back in the model.
MaxLen == 2
\* Largest flux value of a sample in the model (values are 0..MaxFlux).
MaxFlux == 1
\* Most rows of the table in the data-validation file.
MaxRows == 2
\* Largest phase value of a row in that table (values are 0..MaxPhase).
MaxPhase == 1
\* Bits in the significand of a floating-point number in the model (a Python
\* float has 53; the model keeps the rounding and scales the width down).
PrecisionBits == 3
\* Largest binary exponent of a header timestamp in the model.
MaxExp == 2
\* Most observations the archive query returns in the model.
MaxObs == 7

\* ------------------------------------------------- the notebook's literals
\* lc.flatten(21)
WindowLength == 21
\* p = 17.660114 days, in units of 10^-6 day
Period == 17660114
\* t0 = 136.57258 days, in units of 10^-6 day
EpochTime == 136572580
\* plot_river(bin_points=5, method='median')
BinPointsMedian == 5
\* plot_river(bin_points=1, method='sigma')
BinPointsSigma == 1
\* Observations.get_product_list(obsTable[0:6])
RowsRequested == 6
\* Observations.get_product_list(obsTable[0:2])
SummaryRowsRequested == 2

\* ------------------------------------------------------------------ state
VARIABLES
    bound,      \* names bound in the kernel's namespace
    lc,         \* the stitched light curve: its flux values in time order
    clc,        \* the call that produced clc: lc.flatten(window_length)
    p,          \* the period bound by the fold cell
    t0,         \* the epoch bound by the fold cell
    folded_lc,  \* the call that produced folded_lc: clc.fold(period, epoch_time)
    figures,    \* the plotting calls made so far
    error       \* outcome of the cell run last: "none" or the exception raised

riverVars == <<bound, lc, clc, p, t0, folded_lc, figures, error>>

\* The data-validation notebook's kernel.
VARIABLES
    dvt_hdu1,           \* hdulist[1].data of the file at dvt_file: its rows
    dvt_bound,          \* names bound in the kernel's namespace
    phases,             \* hdulist[1].data['PHASE']
    fluxes_init,        \* hdulist[1].data['LC_INIT']
    model_fluxes_init,  \* hdulist[1].data['MODEL_INIT']
    sort_indexes,       \* np.argsort(phases), as positions 1..n
    dvt_lines,          \* the (x, y) arrays handed to ax.plot, in call order
    dvt_error           \* outcome of the cell run last

dvtVars == <<dvt_hdu1, dvt_bound, phases, fluxes_init, model_fluxes_init,
             sort_indexes, dvt_lines, dvt_error>>

\* The full-frame-image notebook's kernel.
VARIABLES
    ffi_hdu1_header,  \* TSTART and TSTOP in hdulist[1].header of the file
    ffi_bound,        \* names bound in the kernel's namespace
    header,           \* the header bound by the cell that opens the file
    mid_time,         \* (header['TSTOP'] + header['TSTART']) / 2
    ffi_error         \* outcome of the cell run last

ffiVars == <<ffi_hdu1_header, ffi_bound, header, mid_time, ffi_error>>

\* The guest-investigator download notebook.
VARIABLES
    mast,            \* the archive: for each observation of the query result,
                     \* the descriptions of its data products
    gi_cache,        \* the files in the local download directory
    gi_bound,        \* names bound in the kernel's namespace
    obsCount,        \* the number printed by the count cell
    obsTable,        \* the query result: its obsid column
    productRequest,  \* the rows passed to get_product_list by the last call
    dataProducts,    \* the product table: rows of obsID, productFilename,
                     \* description
    want,            \* the boolean mask over the rows of a product table
    downloadRequest, \* the rows passed to download_products by the last call
    manifest,        \* the download manifest: rows of Local Path and message
    gi_error,        \* outcome of the cell run last
    gi_cell,         \* history: the cell run last
    gi_downloaded    \* history: the download cell has completed

giVars == <<mast, gi_cache, gi_bound, obsCount, obsTable, productRequest,
            dataProducts, want, downloadRequest, manifest, gi_error, gi_cell,
            gi_downloaded>>

vars == <<riverVars, dvtVars, ffiVars, giVars>>

\* The names the notebook's cells bind.
Names == {"lk", "lc", "clc", "p", "t0", "folded_lc"}

\* The light curves the archive may hand back: 1..MaxLen samples.
RECURSIVE SeqsUpTo(_)
SeqsUpTo(n) ==
    IF n = 0 THEN {<<>>}
    ELSE SeqsUpTo(n - 1) \cup [1..n -> 0..MaxFlux]

LightCurves == SeqsUpTo(MaxLen) \ {<<>>}

\* Value of a variable whose name is not bound.
NoLc == <<>>
NoClc == [window_length |-> 0, of |-> NoLc]
NoFolded == [period |-> 0, epoch_time |-> 0, of |-> NoClc]

\* Keyword arguments of a plot_river call: the keywords the cell passes, and
\* their values (0 and "" fill the place of a keyword that is not passed).
NoKwargs == [passed |-> {}, bin_points |-> 0, method |-> ""]

\* One plotting call: the method, its receiver's name and its keywords.
Figure(method, receiver, kwargs) ==
    [call |-> method, on |-> receiver, kwargs |-> kwargs]

\* A cell that reads an unbound name raises NameError and binds nothing more.
NameError == "NameError"

RiverInit ==
    /\ bound = {}
    /\ lc = NoLc
    /\ clc = NoClc
    /\ p = 0
    /\ t0 = 0
    /\ folded_lc = NoFolded
    /\ figures = {}
    /\ error = "none"

\* import lightkurve as lk
CellImport ==
    /\ bound' = bound \cup {"lk"}
    /\ error' = "none"
    /\ UNCHANGED <<lc, clc, p, t0, folded_lc, figures>>

\* lc = lk.search_lightcurve('KIC 6185476', cadence='long').download_all().stitch()
CellDownload ==
    IF "lk" \notin bound
    THEN /\ error' = NameError
         /\ UNCHANGED <<bound, lc, clc, p, t0, folded_lc, figures>>
    ELSE \E data \in LightCurves :
            /\ lc' = data
            /\ bound' = bound \cup {"lc"}
            /\ error' = "none"
            /\ UNCHANGED <<clc, p, t0, folded_lc, figures>>

\* lc.plot();
CellPlotLc ==
    IF "lc" \notin bound
    THEN /\ error' = NameError
         /\ UNCHANGED <<bound, lc, clc, p, t0, folded_lc, figures>>
    ELSE /\ figures' = figures \cup {Figure("plot", "lc", NoKwargs)}
         /\ error' = "none"
         /\ UNCHANGED <<bound, lc, clc, p, t0, folded_lc>>

\* clc = lc.flatten(21)
\* clc.plot();
CellFlatten ==
    IF "lc" \notin bound
    THEN /\ error' = NameError
         /\ UNCHANGED <<bound, lc, clc, p, t0, folded_lc, figures>>
    ELSE /\ clc' = [window_length |-> WindowLength, of |-> lc]
         /\ bound' = bound \cup {"clc"}
         /\ figures' = figures \cup {Figure("plot", "clc", NoKwargs)}
         /\ error' = "none"
         /\ UNCHANGED <<lc, p, t0, folded_lc>>

\* p, t0 = 17.660114, 136.57258
\* folded_lc = clc.fold(period=p, epoch_time=t0)
\* folded_lc.scatter();
\* The first statement binds p and t0 even when the second one raises.
CellFold ==
    /\ p' = Period
    /\ t0' = EpochTime
    /\ IF "clc" \notin bound
       THEN /\ bound' = bound \cup {"p", "t0"}
            /\ error' = NameError
            /\ UNCHANGED <<lc, clc, folded_lc, figures>>
       ELSE /\ folded_lc' = [period |-> p', epoch_time |-> t0', of |-> clc]
            /\ bound' = bound \cup {"p", "t0", "folded_lc"}
            /\ figures' = figures \cup {Figure("scatter", "folded_lc", NoKwargs)}
            /\ error' = "none"
            /\ UNCHANGED <<lc, clc>>

\* A cell whose only statement is folded_lc.plot_river(**kwargs);
PlotRiver(kwargs) ==
    IF "folded_lc" \notin bound
    THEN /\ error' = NameError
         /\ UNCHANGED <<bound, lc, clc, p, t0, folded_lc, figures>>
    ELSE /\ figures' = figures \cup {Figure("plot_river", "folded_lc", kwargs)}
         /\ error' = "none"
         /\ UNCHANGED <<bound, lc, clc, p, t0, folded_lc>>

\* folded_lc.plot_river();
CellPlotRiver == PlotRiver(NoKwargs)

\* folded_lc.plot_river(bin_points=5, method='median');
CellPlotRiverMedian ==
    PlotRiver([passed |-> {"bin_points", "method"},
               bin_points |-> BinPointsMedian, method |-> "median"])

\* folded_lc.plot_river(bin_points=1, method='sigma');
CellPlotRiverSigma ==
    PlotRiver([passed |-> {"bin_points", "method"},
               bin_points |-> BinPointsSigma, method |-> "sigma"])

\* lk.show_citation_instructions()
CellCitation ==
    /\ error' = IF "lk" \in bound THEN "none" ELSE NameError
    /\ UNCHANGED <<bound, lc, clc, p, t0, folded_lc, figures>>

\* ------------------------------------------------------- call-site facts
\* The state stays in its type, and a bound name holds a value its cell made.
TypeOK ==
    /\ bound \subseteq Names
    /\ lc \in LightCurves \cup {NoLc}
    /\ ("lc" \in bound) => lc \in LightCurves
    /\ ("clc" \in bound) => clc.window_length = WindowLength /\ clc.of \in LightCurves
    /\ ("p" \in bound) <=> ("t0" \in bound)
    /\ ("p" \in bound) => p = Period /\ t0 = EpochTime
    /\ \A f \in figures : f.on \in bound
    /\ error \in {"none", NameError}

\* Every fold call the notebook makes passes the one positive period and the
\* one epoch of the fold cell, on a light curve of at least one sample.
FoldCallArguments ==
    ("folded_lc" \in bound) =>
        /\ folded_lc.period = Period
        /\ folded_lc.period > 0
        /\ folded_lc.epoch_time = EpochTime
        /\ folded_lc.of.window_length = WindowLength
        /\ Len(folded_lc.of.of) >= 1

\* Every plot_river call the notebook makes passes no method, 'median' or
\* 'sigma', and no bin_points, 5 or 1.
RiverCallArguments ==
    \A f \in figures :
        f.call = "plot_river" =>
            /\ f.on = "folded_lc"
            /\ f.kwargs.method \in {"", "median", "sigma"}
            /\ f.kwargs.bin_points \in {0, BinPointsMedian, BinPointsSigma}

\* ================================================= data-validation notebook
\* src/notebooks/MAST/Kepler/Kepler_DVT/Kepler_DVT.ipynb

\* The tables the file's first extension may hold: 0..MaxRows rows, each with
\* a phase, an initial flux and a model flux.  (The TIME column and the header
\* values are read by the notebook but take no part in what it computes.)
DvtRow == [phase : 0..MaxPhase, lc_init : 0..MaxFlux, model_init : 0..MaxFlux]

RECURSIVE TablesUpTo(_)
TablesUpTo(n) ==
    IF n = 0 THEN {<<>>}
    ELSE TablesUpTo(n - 1) \cup [1..n -> DvtRow]

DvtTables == TablesUpTo(MaxRows)

\* hdulist[1].data[name]: one column of the table.
Column(table, name) == [k \in 1..Len(table) |-> table[k][name]]

\* a[idx] for an integer index array idx: the elements of a at those positions.
Take(a, idx) == [k \in 1..Len(idx) |-> a[idx[k]]]

\* The index arrays of length n that name every position once.
Orderings(n) ==
    {f \in [1..n -> 1..n] : \A i, j \in 1..n : i # j => f[i] # f[j]}

\* np.argsort(a): an index array that puts a in non-decreasing order.  The
\* default sort is not stable, so equal values may come out in any order:
\* every ordering that sorts a is a possible result.
ArgSort(a) ==
    {idx \in Orderings(Len(a)) :
        \A i, j \in 1..Len(a) : i < j => a[idx[i]] <= a[idx[j]]}

\* Names bound by the import cell, and by the cell that opens the file.
DvtImports == {"fits", "plt", "np"}
DvtExtracted == {"star_teff", "star_logg", "star_tmag", "period", "duration",
                 "epoch", "depth", "times", "phases", "fluxes_init",
                 "model_fluxes_init"}

DvtInit ==
    /\ dvt_hdu1 \in DvtTables
    /\ dvt_bound = {}
    /\ phases = <<>>
    /\ fluxes_init = <<>>
    /\ model_fluxes_init = <<>>
    /\ sort_indexes = <<>>
    /\ dvt_lines = <<>>
    /\ dvt_error = "none"

\* The kernel of a notebook that is not being run.
DvtIdle ==
    /\ dvt_hdu1 = <<>>
    /\ dvt_bound = {}
    /\ phases = <<>>
    /\ fluxes_init = <<>>
    /\ model_fluxes_init = <<>>
    /\ sort_indexes = <<>>
    /\ dvt_lines = <<>>
    /\ dvt_error = "none"

\* from astropy.io import fits / import matplotlib.pyplot as plt / import numpy as np
DvtCellImport ==
    /\ dvt_bound' = dvt_bound \cup DvtImports
    /\ dvt_error' = "none"
    /\ UNCHANGED <<dvt_hdu1, phases, fluxes_init, model_fluxes_init,
                   sort_indexes, dvt_lines>>

\* dvt_file = "https://archive.stsci.edu/.../kplr011446443-20160128150956_dvt.fits"
DvtCellFile ==
    /\ dvt_bound' = dvt_bound \cup {"dvt_file"}
    /\ dvt_error' = "none"
    /\ UNCHANGED <<dvt_hdu1, phases, fluxes_init, model_fluxes_init,
                   sort_indexes, dvt_lines>>

\* A cell that only looks at the file: fits.info(dvt_file),
\* fits.getdata(dvt_file, ext=1).columns, fits.getdata(dvt_file, ext=2).columns
DvtInspect ==
    /\ dvt_error' = IF {"fits", "dvt_file"} \subseteq dvt_bound
                    THEN "none" ELSE NameError
    /\ UNCHANGED <<dvt_hdu1, dvt_bound, phases, fluxes_init, model_fluxes_init,
                   sort_indexes, dvt_lines>>

\* with fits.open(dvt_file, mode="readonly") as hdulist: ... the header values
\* and the columns TIME, PHASE, LC_INIT, MODEL_INIT are bound.
DvtCellOpen ==
    IF ~ ({"fits", "dvt_file"} \subseteq dvt_bound)
    THEN /\ dvt_error' = NameError
         /\ UNCHANGED <<dvt_hdu1, dvt_bound, phases, fluxes_init,
                        model_fluxes_init, sort_indexes, dvt_lines>>
    ELSE /\ phases' = Column(dvt_hdu1, "phase")
         /\ fluxes_init' = Column(dvt_hdu1, "lc_init")
         /\ model_fluxes_init' = Column(dvt_hdu1, "model_init")
         /\ dvt_bound' = dvt_bound \cup DvtExtracted
         /\ dvt_error' = "none"
         /\ UNCHANGED <<dvt_hdu1, sort_indexes, dvt_lines>>

\* The first ax.plot call with the flux array left in file order.
FluxLineUnsorted(idx) == [x |-> Take(phases, idx), y |-> fluxes_init]

\* ax.plot(phases[sort_indexes], fluxes_init[sort_indexes], 'ko', markersize=2)
FluxLine(idx) == [x |-> Take(phases, idx), y |-> Take(fluxes_init, idx)]

\* ax.plot(phases[sort_indexes], model_fluxes_init[sort_indexes], '-r')
ModelLine(idx) == [x |-> Take(phases, idx), y |-> Take(model_fluxes_init, idx)]

\* sort_indexes = np.argsort(phases), then the two ax.plot calls.
DvtCellPlot ==
    IF ~ ((DvtImports \cup DvtExtracted) \subseteq dvt_bound)
    THEN /\ dvt_error' = NameError
         /\ UNCHANGED <<dvt_hdu1, dvt_bound, phases, fluxes_init,
                        model_fluxes_init, sort_indexes, dvt_lines>>
    ELSE \E idx \in ArgSort(phases) :
            /\ sort_indexes' = idx
            /\ dvt_lines' = <<FluxLine(idx), ModelLine(idx)>>
            /\ dvt_bound' = dvt_bound \cup {"sort_indexes", "fig", "ax"}
            /\ dvt_error' = "none"
            /\ UNCHANGED <<dvt_hdu1, phases, fluxes_init, model_fluxes_init>>

\* ================================================= full-frame-image notebook
\* src/notebooks/MAST/K2/beginner_how_to_use_ffi/beginner_how_to_use_ffi.ipynb

\* Header timestamps are Python floats: binary floating-point numbers.  The
\* model keeps a number as significand and exponent, [m, e] for m * 2^e, with
\* PrecisionBits bits in m (normalised: the top bit of m is set), and rounds
\* every result to nearest, ties to the even significand, as the hardware does.
\* Timestamps are positive and far from the ends of the exponent range, so
\* there is no sign, no overflow and no underflow in the model.
RECURSIVE Pow2(_)
Pow2(n) == IF n = 0 THEN 1 ELSE 2 * Pow2(n - 1)

Significands == Pow2(PrecisionBits - 1)..(Pow2(PrecisionBits) - 1)

\* The timestamps a header may carry.
Timestamps == [m : Significands, e : 0..MaxExp]

\* Smallest e >= from with n / 2^e below 2^PrecisionBits.
RECURSIVE ExponentFor(_, _)
ExponentFor(n, from) ==
    IF n \div Pow2(from) < Pow2(PrecisionBits) THEN from
    ELSE ExponentFor(n, from + 1)

\* The floating-point number nearest to the integer n >= 2^(PrecisionBits-1),
\* ties to even.
RoundToFloat(n) ==
    LET e == ExponentFor(n, 0)
        q == n \div Pow2(e)
        r == n % Pow2(e)
        up == e > 0 /\ (2 * r > Pow2(e) \/ (2 * r = Pow2(e) /\ q % 2 = 1))
        m == IF up THEN q + 1 ELSE q
    IN  IF m = Pow2(PrecisionBits)
        THEN [m |-> Pow2(PrecisionBits - 1), e |-> e + 1]
        ELSE [m |-> m, e |-> e]

\* The integer a float with exponent >= 0 stands for.
IntValue(a) == a.m * Pow2(a.e)

\* a + b in floating point: the exact sum, rounded.
FloatAdd(a, b) == RoundToFloat(IntValue(a) + IntValue(b))

\* a / 2 in floating point: exact, the exponent drops by one.
FloatHalf(a) == [m |-> a.m, e |-> a.e - 1]

\* (header['TSTOP'] + header['TSTART']) / 2 with the sum left undivided.
MidTimeNotHalved(h) == FloatAdd(h.TSTOP, h.TSTART)

\* mid_time = (header['TSTOP'] + header['TSTART']) / 2
MidTime(h) == FloatHalf(FloatAdd(h.TSTOP, h.TSTART))

FfiImports == {"fits", "WCS", "plt", "np"}

NoHeader == [TSTART |-> [m |-> 0, e |-> 0], TSTOP |-> [m |-> 0, e |-> 0]]
NoMidTime == [m |-> 0, e |-> 0]

FfiInit ==
    /\ ffi_hdu1_header \in [TSTART : Timestamps, TSTOP : Timestamps]
    /\ ffi_bound = {}
    /\ header = NoHeader
    /\ mid_time = NoMidTime
    /\ ffi_error = "none"

\* The kernel of a notebook that is not being run.
FfiIdle ==
    /\ ffi_hdu1_header = NoHeader
    /\ ffi_bound = {}
    /\ header = NoHeader
    /\ mid_time = NoMidTime
    /\ ffi_error = "none"

\* from astropy.io import fits / from astropy.wcs import WCS / import ... plt / np
FfiCellImport ==
    /\ ffi_bound' = ffi_bound \cup FfiImports
    /\ ffi_error' = "none"
    /\ UNCHANGED <<ffi_hdu1_header, header, mid_time>>

\* fits_file = "https://archive.stsci.edu/missions/k2/ffi/ktwo2015092174954-c04_ffi-cal.fits"
FfiCellFile ==
    /\ ffi_bound' = ffi_bound \cup {"fits_file"}
    /\ ffi_error' = "none"
    /\ UNCHANGED <<ffi_hdu1_header, header, mid_time>>

\* fits.info(fits_file)
FfiCellInfo ==
    /\ ffi_error' = IF {"fits", "fits_file"} \subseteq ffi_bound
                    THEN "none" ELSE NameError
    /\ UNCHANGED <<ffi_hdu1_header, ffi_bound, header, mid_time>>

\* with fits.open(fits_file, mode = "readonly") as hdulist:
\*     wcs_info = WCS(hdulist[1].header); cal_image = hdulist[1].data
\*     header = hdulist[1].header
FfiCellOpen ==
    IF ~ ({"fits", "WCS", "fits_file"} \subseteq ffi_bound)
    THEN /\ ffi_error' = NameError
         /\ UNCHANGED <<ffi_hdu1_header, ffi_bound, header, mid_time>>
    ELSE /\ header' = ffi_hdu1_header
         /\ ffi_bound' = ffi_bound \cup {"wcs_info", "cal_image", "header"}
         /\ ffi_error' = "none"
         /\ UNCHANGED <<ffi_hdu1_header, mid_time>>

\* mid_time = (header['TSTOP'] + header['TSTART']) / 2
FfiCellMidTime ==
    IF "header" \notin ffi_bound
    THEN /\ ffi_error' = NameError
         /\ UNCHANGED <<ffi_hdu1_header, ffi_bound, header, mid_time>>
    ELSE /\ mid_time' = MidTime(header)
         /\ ffi_bound' = ffi_bound \cup {"mid_time"}
         /\ ffi_error' = "none"
         /\ UNCHANGED <<ffi_hdu1_header, header>>

\* plt.figure(...); plt.subplot(111, projection = wcs_info); plt.imshow(cal_image, ...)
\* plt.title("... Timestamp %f BKJD" % mid_time)
FfiCellDisplay ==
    /\ ffi_error' = IF {"plt", "np", "wcs_info", "cal_image", "mid_time"}
                         \subseteq ffi_bound
                    THEN "none" ELSE NameError
    /\ UNCHANGED <<ffi_hdu1_header, ffi_bound, header, mid_time>>

\* ================================ the guest-investigator download notebook
\* The descriptions a data product of a timeseries observation carries.
Descriptions == {"Light curves", "Target pixel files"}

\* fileType = "Light curves"
fileType == "Light curves"

\* The products of one observation: a target pixel file, with or without a
\* light curve listed before it.
ObservationProducts ==
    {<<"Target pixel files">>, <<"Light curves", "Target pixel files">>}

\* What the archive may hold for the query of the notebook.
Holdings == UNION {[1..n -> ObservationProducts] : n \in 0..MaxObs}

Min(a, b) == IF a < b THEN a ELSE b

\* t[0:stop]
Slice(t, stop) == SubSeq(t, 1, Min(stop, Len(t)))

\* Observations.query_criteria(obs_collection, dataproduct_type,
\* sequence_number, proposal_id): one row per observation, obsid 1, 2, ...
QueryCriteria == [i \in 1..Len(mast) |-> i]

\* The product rows of one observation.
ProductsOf(obsid) ==
    [k \in 1..Len(mast[obsid]) |->
        [obsID |-> obsid, productFilename |-> k,
         description |-> mast[obsid][k]]]

\* Observations.get_product_list(rows): the products of each observation of
\* rows, in the order of rows.
RECURSIVE GetProductList(_)
GetProductList(rows) ==
    IF rows = <<>> THEN <<>>
    ELSE ProductsOf(Head(rows)) \o GetProductList(Tail(rows))

\* A mask that keeps every row.
WantAll(products, type) == [k \in 1..Len(products) |-> TRUE]

\* dataProducts['description'] == type
Want(products, type) ==
    [k \in 1..Len(products) |-> products[k].description = type]

\* t[mask], mask a boolean array as long as t
BoolIndex(t, mask) ==
    LET upto[k \in 0..Len(t)] ==
            IF k = 0 THEN <<>>
            ELSE IF mask[k] THEN Append(upto[k - 1], t[k]) ELSE upto[k - 1]
    IN upto[Len(t)]

\* The file a product is saved to.
PathOf(product) == <<product.obsID, product.productFilename>>

\* Observations.download_products(products) with the files of cache on disk: a
\* file that is already there is reported as found, any other is downloaded.
DownloadProducts(products, cache) ==
    [k \in 1..Len(products) |->
        [LocalPath |-> PathOf(products[k]),
         Message |-> IF \/ PathOf(products[k]) \in cache
                        \/ \E j \in 1..(k - 1) :
                              PathOf(products[j]) = PathOf(products[k])
                     THEN "Found cached file" ELSE "Downloading URL"]]

\* The files of a product table.
Paths(products) == {PathOf(products[k]) : k \in 1..Len(products)}

\* Every row of the query result.
SummaryRowsAll(t) == t

\* obsTable[0:2]
SummaryRows(t) == Slice(t, SummaryRowsRequested)

\* mission, dataProdType, GiProgram, fileType, sector
GiSummaryNames == {"mission", "dataProdType", "GiProgram", "fileType", "sector"}

GiInit ==
    /\ mast \in Holdings
    /\ gi_cache = {}
    /\ gi_bound = {}
    /\ obsCount = 0
    /\ obsTable = <<>>
    /\ productRequest = <<>>
    /\ dataProducts = <<>>
    /\ want = <<>>
    /\ downloadRequest = <<>>
    /\ manifest = <<>>
    /\ gi_error = "none"
    /\ gi_cell = "none"
    /\ gi_downloaded = FALSE

\* The kernel of a notebook that is not being run.
GiIdle ==
    /\ mast = <<>>
    /\ gi_cache = {}
    /\ gi_bound = {}
    /\ obsCount = 0
    /\ obsTable = <<>>
    /\ productRequest = <<>>
    /\ dataProducts = <<>>
    /\ want = <<>>
    /\ downloadRequest = <<>>
    /\ manifest = <<>>
    /\ gi_error = "none"
    /\ gi_cell = "none"
    /\ gi_downloaded = FALSE

\* A cell stops at an exception before it has bound or fetched anything.
GiRaise(cell, exception) ==
    /\ gi_cell' = cell
    /\ gi_error' = exception
    /\ UNCHANGED <<mast, gi_cache, gi_bound, obsCount, obsTable,
                   productRequest, dataProducts, want, downloadRequest,
                   manifest, gi_downloaded>>

\* from astroquery.mast import Observations / from astropy.io import fits
GiCellImport ==
    /\ gi_cell' = "import"
    /\ gi_bound' = gi_bound \cup {"Observations", "fits"}
    /\ gi_error' = "none"
    /\ UNCHANGED <<mast, gi_cache, obsCount, obsTable, productRequest,
                   dataProducts, want, downloadRequest, manifest,
                   gi_downloaded>>

\* obsCount = Observations.query_criteria_count(...); print(... % obsCount)
GiCellCount ==
    IF "Observations" \notin gi_bound
    THEN GiRaise("count", NameError)
    ELSE /\ gi_cell' = "count"
         /\ obsCount' = Len(mast)
         /\ gi_bound' = gi_bound \cup {"obsCount"}
         /\ gi_error' = "none"
         /\ UNCHANGED <<mast, gi_cache, obsTable, productRequest,
                        dataProducts, want, downloadRequest, manifest,
                        gi_downloaded>>

\* obsTable = Observations.query_criteria(...)
\* obsTable[0:5]['obsid','proposal_id','obs_id'] is displayed, nothing is bound
GiCellQuery ==
    IF "Observations" \notin gi_bound
    THEN GiRaise("query", NameError)
    ELSE /\ gi_cell' = "query"
         /\ obsTable' = QueryCriteria
         /\ gi_bound' = gi_bound \cup {"obsTable"}
         /\ gi_error' = "none"
         /\ UNCHANGED <<mast, gi_cache, obsCount, productRequest,
                        dataProducts, want, downloadRequest, manifest,
                        gi_downloaded>>

\* dataProducts = Observations.get_product_list(obsTable[0:6])
\* dataProducts.colnames
\* For an empty list of observations the library either raises or hands back
\* an empty table, depending on its version.
GiCellProductList ==
    IF ~ ({"Observations", "obsTable"} \subseteq gi_bound)
    THEN GiRaise("product_list", NameError)
    ELSE LET rows == Slice(obsTable, RowsRequested)
         IN \/ /\ rows = <<>>
               /\ gi_cell' = "product_list"
               /\ productRequest' = rows
               /\ gi_error' = "InvalidQueryError"
               /\ UNCHANGED <<mast, gi_cache, gi_bound, obsCount, obsTable,
                              dataProducts, want, downloadRequest, manifest,
                              gi_downloaded>>
            \/ /\ gi_cell' = "product_list"
               /\ productRequest' = rows
               /\ dataProducts' = GetProductList(rows)
               /\ gi_bound' = gi_bound \cup {"dataProducts"}
               /\ gi_error' = "none"
               /\ UNCHANGED <<mast, gi_cache, obsCount, obsTable, want,
                              downloadRequest, manifest, gi_downloaded>>

\* dataProducts['obsID', 'productFilename', 'description']
GiCellShowProducts ==
    IF "dataProducts" \notin gi_bound
    THEN GiRaise("show_products", NameError)
    ELSE /\ gi_cell' = "show_products"
         /\ gi_error' = "none"
         /\ UNCHANGED <<mast, gi_cache, gi_bound, obsCount, obsTable,
                        productRequest, dataProducts, want, downloadRequest,
                        manifest, gi_downloaded>>

\* want = dataProducts['description'] == "Light curves"
\* print(dataProducts[want])
GiCellWant ==
    IF "dataProducts" \notin gi_bound
    THEN GiRaise("want", NameError)
    ELSE /\ gi_cell' = "want"
         /\ want' = Want(dataProducts, "Light curves")
         /\ gi_bound' = gi_bound \cup {"want"}
         /\ gi_error' = "none"
         /\ UNCHANGED <<mast, gi_cache, obsCount, obsTable, productRequest,
                        dataProducts, downloadRequest, manifest,
                        gi_downloaded>>

\* manifest = Observations.download_products(dataProducts[want])
\* print(manifest)
\* A mask of another length than the table is an IndexError.
GiCellDownload ==
    IF ~ ({"Observations", "dataProducts", "want"} \subseteq gi_bound)
    THEN GiRaise("download", NameError)
    ELSE IF Len(want) # Len(dataProducts)
    THEN GiRaise("download", "IndexError")
    ELSE LET selected == BoolIndex(dataProducts, want)
         IN /\ gi_cell' = "download"
            /\ downloadRequest' = selected
            /\ manifest' = DownloadProducts(selected, gi_cache)
            /\ gi_cache' = gi_cache \cup Paths(selected)
            /\ gi_bound' = gi_bound \cup {"manifest"}
            /\ gi_downloaded' = TRUE
            /\ gi_error' = "none"
            /\ UNCHANGED <<mast, obsCount, obsTable, productRequest,
                           dataProducts, want>>

\* fits.info(manifest['Local Path'][0])
\* Without a downloaded file there is no row 0 (or no table at all).
GiCellFitsInfo ==
    IF ~ ({"fits", "manifest"} \subseteq gi_bound)
    THEN GiRaise("fits_info", NameError)
    ELSE IF manifest = <<>>
    THEN \E exception \in {"IndexError", "TypeError"} :
            GiRaise("fits_info", exception)
    ELSE /\ gi_cell' = "fits_info"
         /\ gi_error' = "none"
         /\ UNCHANGED <<mast, gi_cache, gi_bound, obsCount, obsTable,
                        productRequest, dataProducts, want, downloadRequest,
                        manifest, gi_downloaded>>

\* The summary cell: the five assignments of the query information, then
\* obsTable = Observations.query_criteria(...)
\* dataProducts = Observations.get_product_list(obsTable[0:2])
\* want = dataProducts['description'] == fileType
\* manifest = Observations.download_products(dataProducts[want])
\* print(manifest)
\* An exception leaves bound what the statements before it have bound.
GiCellSummary ==
    LET rows == SummaryRows(QueryCriteria)
        products == GetProductList(rows)
        selected == BoolIndex(products, Want(products, fileType))
    IN /\ gi_cell' = "summary"
       /\ IF "Observations" \notin gi_bound
          THEN /\ gi_bound' = gi_bound \cup GiSummaryNames
               /\ gi_error' = NameError
               /\ UNCHANGED <<mast, gi_cache, obsCount, obsTable,
                              productRequest, dataProducts, want,
                              downloadRequest, manifest, gi_downloaded>>
          ELSE \/ /\ rows = <<>>
                  /\ obsTable' = QueryCriteria
                  /\ productRequest' = rows
                  /\ gi_bound' = gi_bound \cup GiSummaryNames \cup {"obsTable"}
                  /\ gi_error' = "InvalidQueryError"
                  /\ UNCHANGED <<mast, gi_cache, obsCount, dataProducts, want,
                                 downloadRequest, manifest, gi_downloaded>>
               \/ /\ obsTable' = QueryCriteria
                  /\ productRequest' = rows
                  /\ dataProducts' = products
                  /\ want' = Want(products, fileType)
                  /\ downloadRequest' = selected
                  /\ manifest' = DownloadProducts(selected, gi_cache)
                  /\ gi_cache' = gi_cache \cup Paths(selected)
                  /\ gi_bound' = gi_bound \cup GiSummaryNames
                                    \cup {"obsTable", "dataProducts", "want",
                                          "manifest"}
                  /\ gi_error' = "none"
                  /\ UNCHANGED <<mast, obsCount, gi_downloaded>>

\* ========================================================= specifications
\* Each notebook has a kernel of its own: while one runs, the others' kernels
\* stay as they are.
NotRiver == <<dvtVars, ffiVars, giVars>>
NotDvt == <<riverVars, ffiVars, giVars>>
NotFfi == <<riverVars, dvtVars, giVars>>
NotGi == <<riverVars, dvtVars, ffiVars>>

Init == RiverInit /\ DvtIdle /\ FfiIdle /\ GiIdle

Next ==
    \/ CellImport /\ UNCHANGED NotRiver
    \/ CellDownload /\ UNCHANGED NotRiver
    \/ CellPlotLc /\ UNCHANGED NotRiver
    \/ CellFlatten /\ UNCHANGED NotRiver
    \/ CellFold /\ UNCHANGED NotRiver
    \/ CellPlotRiver /\ UNCHANGED NotRiver
    \/ CellPlotRiverMedian /\ UNCHANGED NotRiver
    \/ CellPlotRiverSigma /\ UNCHANGED NotRiver
    \/ CellCitation /\ UNCHANGED NotRiver

\* The river-plot notebook.
Spec == Init /\ [][Next]_vars

InitDvt == DvtInit /\ RiverInit /\ FfiIdle /\ GiIdle

NextDvt ==
    \/ DvtCellImport /\ UNCHANGED NotDvt
    \/ DvtCellFile /\ UNCHANGED NotDvt
    \/ DvtInspect /\ UNCHANGED NotDvt
    \/ DvtCellOpen /\ UNCHANGED NotDvt
    \/ DvtCellPlot /\ UNCHANGED NotDvt

\* The data-validation notebook.
SpecDvt == InitDvt /\ [][NextDvt]_vars

InitFfi == FfiInit /\ RiverInit /\ DvtIdle /\ GiIdle

NextFfi ==
    \/ FfiCellImport /\ UNCHANGED NotFfi
    \/ FfiCellFile /\ UNCHANGED NotFfi
    \/ FfiCellInfo /\ UNCHANGED NotFfi
    \/ FfiCellOpen /\ UNCHANGED NotFfi
    \/ FfiCellMidTime /\ UNCHANGED NotFfi
    \/ FfiCellDisplay /\ UNCHANGED NotFfi

\* The full-frame-image notebook.
SpecFfi == InitFfi /\ [][NextFfi]_vars

InitGi == GiInit /\ RiverInit /\ DvtIdle /\ FfiIdle

NextGi ==
    \/ GiCellImport /\ UNCHANGED NotGi
    \/ GiCellCount /\ UNCHANGED NotGi
    \/ GiCellQuery /\ UNCHANGED NotGi
    \/ GiCellProductList /\ UNCHANGED NotGi
    \/ GiCellShowProducts /\ UNCHANGED NotGi
    \/ GiCellWant /\ UNCHANGED NotGi
    \/ GiCellDownload /\ UNCHANGED NotGi
    \/ GiCellFitsInfo /\ UNCHANGED NotGi
    \/ GiCellSummary /\ UNCHANGED NotGi

\* The guest-investigator download notebook.
SpecGi == InitGi /\ [][NextGi]_vars

\* ================================================================= claims
\* A sequence of numbers in non-decreasing order.
NonDecreasing(a) == \A i, j \in 1..Len(a) : i < j => a[i] <= a[j]

\* C22: in the data-validation notebook the two plotted lines carry the phases
\* in non-decreasing order, and one ordering of the file's rows gives, at
\* every index, the phase, the flux and the model flux of one and the same
\* row: the three arrays are reordered by the same permutation.
C22_SortedTogether ==
    (dvt_lines # <<>>) =>
        /\ Len(dvt_lines) = 2
        /\ dvt_lines[1].x = dvt_lines[2].x
        /\ NonDecreasing(dvt_lines[1].x)
        /\ \E perm \in Orderings(Len(dvt_hdu1)) :
              /\ Len(dvt_lines[1].x) = Len(dvt_hdu1)
              /\ Len(dvt_lines[1].y) = Len(dvt_hdu1)
              /\ Len(dvt_lines[2].y) = Len(dvt_hdu1)
              /\ \A k \in 1..Len(dvt_hdu1) :
                    /\ dvt_lines[1].x[k] = dvt_hdu1[perm[k]].phase
                    /\ dvt_lines[1].y[k] = dvt_hdu1[perm[k]].lc_init
                    /\ dvt_lines[2].y[k] = dvt_hdu1[perm[k]].model_init

\* C22 witness: the plot cell has run on a file whose rows are out of phase
\* order and differ in flux and in model flux, so the sort moved rows.
C22_Witness ==
    /\ dvt_lines # <<>>
    /\ Len(dvt_hdu1) >= 2
    /\ dvt_hdu1[1].phase > dvt_hdu1[2].phase
    /\ dvt_hdu1[1].lc_init # dvt_hdu1[2].lc_init
    /\ dvt_hdu1[1].model_init # dvt_hdu1[2].model_init
    /\ sort_indexes[1] # 1

\* Twice the value of a float whose exponent is at least -1: an integer.
Twice(a) == a.m * Pow2(a.e + 1)

\* |n|
Abs(n) == IF n < 0 THEN -n ELSE n

\* How much farther mid_time lies from TSTART than from TSTOP, doubled:
\* 2 * ((mid_time - TSTART) - (TSTOP - mid_time)), in exact arithmetic.
C23_Imbalance ==
    2 * Twice(mid_time) - Twice(header.TSTART) - Twice(header.TSTOP)

\* The mid_time cell has run on a header with TSTART <= TSTOP.
C23_Case ==
    /\ "mid_time" \in ffi_bound
    /\ Twice(header.TSTART) <= Twice(header.TSTOP)

C24_FirstFiveOnly ==
    (gi_cell = "product_list" /\ gi_error = "none") =>
        productRequest = Slice(obsTable, 5)

\* A download has completed, in the download cell or in the summary cell.
C25_Case ==
    /\ gi_cell \in {"download", "summary"}
    /\ gi_error = "none"

\* The rows of the product table that are light curves.
C25_LightCurveRows ==
    {k \in 1..Len(dataProducts) : dataProducts[k].description = "Light curves"}

\* C25: the products passed to download_products are exactly the rows of the
\* retrieved product list whose description is "Light curves", each once:
\* every such row is passed and fetched, and no row with another description
\* is passed.
C25_OnlyLightCurves ==
    C25_Case =>
        /\ \A k \in C25_LightCurveRows :
              /\ \E j \in 1..Len(downloadRequest) :
                    downloadRequest[j] = dataProducts[k]
              /\ PathOf(dataProducts[k]) \in gi_cache
              /\ \E j \in 1..Len(manifest) :
                    manifest[j].LocalPath = PathOf(dataProducts[k])
        /\ \A j \in 1..Len(downloadRequest) :
              /\ downloadRequest[j].description = "Light curves"
              /\ \E k \in 1..Len(dataProducts) :
                    dataProducts[k] = downloadRequest[j]
        /\ Len(downloadRequest) = Cardinality(C25_LightCurveRows)
        /\ Len(manifest) = Len(downloadRequest)

\* C25 witness: a download has completed on a product list that holds light
\* curves and other products, so the filter kept some rows and dropped others.
C25_Witness ==
    /\ C25_Case
    /\ downloadRequest # <<>>
    /\ Len(downloadRequest) < Len(dataProducts)

\* The summary cell has completed after the download cell had completed.
C26_Case ==
    /\ gi_cell = "summary"
    /\ gi_error = "none"
    /\ gi_downloaded

\* C26: when the summary cell runs after the download cell, every file of its
\* manifest is reported as a cached file and none is downloaded again.
C26_AllCached ==
    C26_Case =>
        \A k \in 1..Len(manifest) : manifest[k].Message = "Found cached file"

\* C26 witness: the summary cell has completed and listed a file, after the
\* download cell had fetched files of observations beyond the second.
C26_Witness ==
    /\ C26_Case
    /\ manifest # <<>>
    /\ \E path \in gi_cache : path[1] > SummaryRowsRequested

====
